---------------------------- MODULE Spec2Model ----------------------------
(***************************************************************************)
(* VizAI pipeline orchestration: the job queue worker, the rate and budget *)
(* guard, cost tracking and the failure handling matrix, as written in the *)
(* repository's blueprint (src/README.md).                                 *)
(*                                                                         *)
(* Time is counted in whole seconds.  Money is counted in units of 1e-7    *)
(* USD, so that the per-token prices (0.30 and 2.50 USD per million        *)
(* tokens) are the integers 3 and 25.                                      *)
(***************************************************************************)
EXTENDS Integers, Sequences, FiniteSets, TLC

VARIABLES
  now,        \* wall clock, seconds
  jobs,       \* table job_queue: JobIds -> row
  workers,    \* one record per concurrent invocation of handleJobQueue
  hist,       \* history: per job, the GEMINI_TIMEOUT failures seen so far
              \* and whether an invocation that held it was abandoned
  rate,       \* table rate_limits, the row of the one user
  guard,      \* history: admissions of the running minute, budget denials
  project,    \* table projects, the row of the one project
  context,    \* table ai_generation_context, the row of the one project
  response,   \* what the last request of a function did and answered
  vr,         \* one call of validateAndRepair: its arguments and its result
  checks,     \* the calls of checkRateLimit in flight: the row each selected
  recovery,   \* one error given to the failure classification, and the result
  telemetry,  \* one TelemetryCollector and the telemetry column it writes
  mock        \* one call of MockAIService.analyzeCSV: its input and result

vars == <<now, jobs, workers, hist, rate, guard, project, context,
          response, vr, checks, recovery, telemetry, mock>>

queueVars == <<jobs, workers, hist>>
libVars   == <<vr, checks, recovery, telemetry, mock>>
guardVars == <<rate, guard, project, context, response, libVars>>

\* ------------------------------------------------------------------ bounds
NumWorkers      == 2
MaxNowQueue     == 16
MaxTimeoutsSeen == 3

\* the queue holds the job of the one project
JobIds  == {1}
Workers == 1..NumWorkers

\* steps by which the environment lets the clock advance in the queue runs
QueueClockSteps == {4}

\* ------------------------------------------------------- program constants
DefaultMaxAttempts == 3
MsPerSecond        == 1000

\* max_attempts values the jobs are created with (the default and one below)
MaxAttemptsValues == {DefaultMaxAttempts - 1, DefaultMaxAttempts}

\* error messages processJob is seen to throw
JobErrors == {"GEMINI_TIMEOUT", "SUPABASE_TIMEOUT"}

RECURSIVE Pow2(_)
Pow2(n) == IF n <= 0 THEN 1 ELSE 2 * Pow2(n - 1)

Min(a, b) == IF a <= b THEN a ELSE b

\* ------------------------------------------------------------- job queue
NoJob == [id |-> 0, attempts |-> 0, max_attempts |-> 0]

NewJob(m) ==
  [status |-> "pending", attempts |-> 0, max_attempts |-> m,
   scheduled_at |-> 0, last_error |-> "none"]

IdleWorker == [pc |-> "idle", job |-> NoJob, result |-> "none"]

\* a plausible slip: the select leaves out .lte('scheduled_at', now)
DueJobs_anyTime(t) == {j \in JobIds : jobs[j].status = "pending"}

\* the rows the select of handleJobQueue matches
DueJobs(t) ==
  {j \in JobIds : jobs[j].status = "pending" /\ jobs[j].scheduled_at <= t}

\* .order('scheduled_at').limit(1): the rows that can come first
FirstDueJobs(t) ==
  {j \in DueJobs(t) : \A k \in DueJobs(t) :
                         jobs[j].scheduled_at <= jobs[k].scheduled_at}

\* delaySeconds = Math.pow(2, attempts) * 2
delaySeconds(attempts) == Pow2(attempts) * 2

\* a plausible slip: the terminal branch is forgotten, every failure retries
handleJobFailure_alwaysRetry(row, job, message, t) ==
  [row EXCEPT !.attempts = job.attempts + 1,
              !.status = "pending",
              !.scheduled_at = t + delaySeconds(job.attempts + 1),
              !.last_error = message]

\* a plausible slip: the delay is computed from the attempts before the
\* increment (2s, 4s, 8s, as the comment in the source says)
handleJobFailure_preIncrement(row, job, message, t) ==
  IF job.attempts + 1 >= job.max_attempts
    THEN [row EXCEPT !.status = "failed", !.last_error = message]
    ELSE [row EXCEPT !.attempts = job.attempts + 1,
                     !.status = "pending",
                     !.scheduled_at = t + delaySeconds(job.attempts),
                     !.last_error = message]

\* handleJobFailure(job, error): the row as the update leaves it.  job is
\* the row as the worker read it, row is the row as stored now.
handleJobFailure(row, job, message, t) ==
  IF job.attempts + 1 >= job.max_attempts
    THEN [row EXCEPT !.status = "failed", !.last_error = message]
    ELSE [row EXCEPT !.attempts = job.attempts + 1,
                     !.status = "pending",
                     !.scheduled_at = t + delaySeconds(job.attempts + 1),
                     !.last_error = message]

\* a plausible slip: the select also claims the row, status running
SelectJob_marksRunning(w) ==
  /\ workers[w].pc = "idle"
  /\ \E j \in FirstDueJobs(now) :
       /\ workers' = [workers EXCEPT ![w] =
                        [pc |-> "processing",
                         job |-> [id |-> j, attempts |-> jobs[j].attempts,
                                  max_attempts |-> jobs[j].max_attempts],
                         result |-> "none"]]
       /\ jobs' = [jobs EXCEPT ![j].status = "running"]
  /\ UNCHANGED <<now, hist, guardVars>>

\* handleJobQueue, the select: a pending due job is read
SelectJob(w) ==
  /\ workers[w].pc = "idle"
  /\ \E j \in FirstDueJobs(now) :
       workers' = [workers EXCEPT ![w] =
                     [pc |-> "processing",
                      job |-> [id |-> j, attempts |-> jobs[j].attempts,
                               max_attempts |-> jobs[j].max_attempts],
                      result |-> "none"]]
  /\ UNCHANGED <<now, jobs, hist, guardVars>>

\* handleJobQueue, no row matches: 204 No jobs
NoJobs(w) ==
  /\ workers[w].pc = "idle"
  /\ DueJobs(now) = {}
  /\ workers[w].result # "no_jobs"
  /\ workers' = [workers EXCEPT ![w] = [IdleWorker EXCEPT !.result = "no_jobs"]]
  /\ UNCHANGED <<now, jobs, hist, guardVars>>

\* handleJobQueue, processJob returns: the invocation ends
ProcessJobReturns(w) ==
  /\ workers[w].pc = "processing"
  /\ workers' = [workers EXCEPT ![w] =
                   [pc |-> "idle", job |-> workers[w].job,
                    result |-> "returned"]]
  /\ hist' = [hist EXCEPT ![workers[w].job.id].clean = FALSE]
  /\ UNCHANGED <<now, jobs, guardVars>>

\* handleJobQueue, processJob throws: handleJobFailure(job, error)
ProcessJobThrows(w, message) ==
  /\ workers[w].pc = "processing"
  /\ LET job == workers[w].job
         row == handleJobFailure(jobs[job.id], job, message, now)
     IN  /\ jobs' = [jobs EXCEPT ![job.id] = row]
         /\ workers' = [workers EXCEPT ![w] =
                          [pc |-> "idle", job |-> job,
                           result |-> IF row.status = "failed"
                                        THEN "failed" ELSE "retry"]]
         /\ hist' = [hist EXCEPT ![job.id] =
                       IF message = "GEMINI_TIMEOUT"
                         THEN [@ EXCEPT !.timeouts =
                                 Min(@ + 1, MaxTimeoutsSeen + 1)]
                         ELSE [@ EXCEPT !.clean = FALSE]]
  /\ UNCHANGED <<now, guardVars>>

\* handleJobQueue, the invocation is terminated while processJob runs:
\* neither the return nor the catch block is reached, nothing is written
Abandon(w) ==
  /\ workers[w].pc = "processing"
  /\ workers' = [workers EXCEPT ![w] =
                   [pc |-> "idle", job |-> workers[w].job,
                    result |-> "abandoned"]]
  /\ hist' = [hist EXCEPT ![workers[w].job.id].abandoned = TRUE]
  /\ UNCHANGED <<now, jobs, guardVars>>

\* the clock advances by d seconds, up to the horizon max
Tick(d, max) ==
  /\ now + d <= max
  /\ now' = now + d
  /\ UNCHANGED <<queueVars, guardVars>>

\* ------------------------------------------------ rate and budget guard
RpmCeiling     == 5
WindowSeconds  == 60
DailyBudget    == 5000000
InputPrice     == 3
OutputPrice    == 25
CostScaleUnit  == 1000
SecondsPerDay  == 86400
StorageRetrySeconds == 5
GeminiMaxRetries    == 3
GeminiBaseDelayMs   == 2000

\* bounds of the guard runs
MaxNowGuard  == 86460
MaxRecords   == 2
MaxErrorLog  == 2
MaxAdmitted  == 6
MaxAttemptCount == 5
MaxTelemetryErrors == 2
MaxFlushes      == 2
MaxCsvRows      == 3
MaxCsvColumns   == 2
MaxTimeoutRuns  == 4

\* the guard runs start one minute before midnight and the clock advances
\* by half a minute
GuardStart      == SecondsPerDay - WindowSeconds
GuardClockSteps == {WindowSeconds \div 2}

\* estimatedTokens: 1500 and 1900 are what the two functions pass; 166667
\* tokens is a call estimated at 0.05 USD
AnalysisEstimates   == {1500, 166667}
GenerationEstimates == {1900}

\* daily_cost_usd of the user when the run starts: 0, 0.48 and 0.499 USD
InitialDailyCosts == {0, 4800000, 4990000}

\* (step, inputTokens, outputTokens) reported to trackTokenUsage
UsageReports == {<<"analysis", 700, 800>>, <<"generation", 400, 1500>>}

\* random jitter of the RATE_LIMIT_RPM handler, whole seconds
JitterSeconds == {0, 4}

\* the job of the one project
ProjectJob == CHOOSE j \in JobIds : \A k \in JobIds : j <= k

NoCode == "undefined"

\* new Error(message): an Error carries no code
Thrown(message) == [code |-> NoCode, message |-> message]

\* the outcome of a request whose calls all succeed
Ok == [code |-> NoCode, message |-> "ok"]

\* errors the generation call and the storage raise, with the code they carry
ExternalErrors ==
  {[code |-> "GEMINI_TIMEOUT", message |-> "GEMINI_TIMEOUT"],
   [code |-> "SUPABASE_TIMEOUT", message |-> "SUPABASE_TIMEOUT"],
   [code |-> "RATE_LIMIT_RPM", message |-> "RATE_LIMIT_RPM"],
   [code |-> "RATE_LIMIT_BUDGET", message |-> "RATE_LIMIT_BUDGET"],
   [code |-> "UNPARSEABLE_JSON", message |-> "UNPARSEABLE_JSON"],
   Thrown("UNPARSEABLE_JSON"),
   Thrown("REPAIR_FAILED")}

\* decimal(10,4): a stored amount is rounded to 1e-4 USD
Round4(x) == ((x + CostScaleUnit \div 2) \div CostScaleUnit) * CostScaleUnit

\* calculateCost(inputTokens, outputTokens).totalCost
calculateCost(inputTokens, outputTokens) ==
  inputTokens * InputPrice + outputTokens * OutputPrice

\* estimatedCost = (estimatedTokens * 0.30) / 1000000
estimatedCost(estimatedTokens) == estimatedTokens * InputPrice

\* the midnight that follows t
NextMidnight(t) == ((t \div SecondsPerDay) + 1) * SecondsPerDay

\* resetDailyLimits(userId) on the stored row: when the boundary has been
\* crossed the day's cost starts again at 0 and the boundary moves to the
\* next midnight; a row whose boundary lies ahead is left as it is
resetDailyLimits(row, t) ==
  IF row.daily_reset_at < t
    THEN [row EXCEPT !.daily_cost_usd = 0, !.daily_reset_at = NextMidnight(t)]
    ELSE row

\* a plausible slip: the caller that found the boundary crossed in the row
\* it selected clears the stored row itself
checkRateLimitReset_clearStored(limit, stored, t) ==
  IF limit.daily_reset_at < t
    THEN [stored EXCEPT !.daily_cost_usd = 0,
                        !.daily_reset_at = NextMidnight(t)]
    ELSE stored

\* checkRateLimit, "Reset daily counter if needed": limit is the row the
\* call selected, stored is the row in the table when the reset is made
checkRateLimitReset(limit, stored, t) ==
  IF limit.daily_reset_at < t THEN resetDailyLimits(stored, t) ELSE stored

\* checkRateLimit, the stored row after a call that nothing interleaves
checkRateLimitStore(limit, t) == checkRateLimitReset(limit, limit, t)

\* checkRateLimit, what the call returns or throws: the checks read the row
\* as it was selected at the top of the function
checkRateLimit(limit, t, estimatedTokens) ==
  IF limit.last_request_at > t - WindowSeconds
       /\ limit.requests_this_minute >= RpmCeiling
    THEN "RATE_LIMIT_RPM"
    ELSE IF limit.daily_cost_usd + estimatedCost(estimatedTokens) > DailyBudget
           THEN "RATE_LIMIT_BUDGET"
           ELSE "ok"

\* history of the guard after a call of checkRateLimit with result r at t
GuardAfter(limit, t, r) ==
  LET g0 == IF limit.daily_reset_at < t
              THEN [guard EXCEPT !.budget_denied = FALSE] ELSE guard
      g1 == IF r = "RATE_LIMIT_BUDGET"
              THEN [g0 EXCEPT !.budget_denied = TRUE] ELSE g0
  IN  IF r # "ok" THEN g1
      ELSE IF t - g1.window_start < WindowSeconds /\ g1.admitted > 0
             THEN [g1 EXCEPT !.admitted = @ + 1, !.unrecorded = @ + 1]
             ELSE [g1 EXCEPT !.window_start = t, !.admitted = 1,
                             !.unrecorded = @ + 1]

\* the callers of checkRateLimit that can be in flight together
Callers == {1, 2}

IdleCheck(row) == [pc |-> "idle", limit |-> row, found |-> row]

\* checkRateLimit, first half: the call selects the row of the user
SelectLimit(c) ==
  /\ checks[c].pc = "idle"
  /\ guard.admitted < MaxAdmitted
  /\ guard.unrecorded < MaxAdmitted
  /\ checks' = [checks EXCEPT ![c] = [pc |-> "selected", limit |-> rate,
                                      found |-> rate]]
  /\ UNCHANGED <<now, queueVars, rate, guard, project, context, response,
                 vr, recovery, telemetry, mock>>

\* checkRateLimit, second half: the reset if the selected row asks for it,
\* then the two checks on the selected row
FinishCheck(c, estimatedTokens) ==
  /\ checks[c].pc = "selected"
  /\ rate' = checkRateLimitReset(checks[c].limit, rate, now)
  /\ guard' = GuardAfter(checks[c].limit, now,
                         checkRateLimit(checks[c].limit, now,
                                        estimatedTokens))
  /\ checks' = [checks EXCEPT ![c] = [@ EXCEPT !.pc = "idle",
                                               !.found = rate]]
  /\ UNCHANGED <<now, queueVars, project, context, response, vr, recovery,
                 telemetry, mock>>

\* trackTokenUsage(projectId, step, inputTokens, outputTokens), called with
\* the real token counts of a call that was admitted
TrackTokenUsage(report) ==
  /\ guard.records < MaxRecords
  /\ guard.unrecorded > 0
  /\ LET cost == calculateCost(report[2], report[3])
     IN  /\ project' = [project EXCEPT !.token_usage =
                          [step |-> report[1], input |-> report[2],
                           output |-> report[3], step_cost |-> cost,
                           total_cost |-> cost]]
         /\ rate' = [rate EXCEPT !.daily_cost_usd = Round4(@ + cost)]
  /\ guard' = [guard EXCEPT !.records = @ + 1, !.unrecorded = @ - 1]
  /\ UNCHANGED <<now, queueVars, context, response, libVars>>

\* ------------------------------------------------- validation and repair
\* A response is a text over a small alphabet: the punctuation of JSON,
\* q for the double quote, p for the single quote, s for a blank, the
\* letters a and b and the digit 1.
Punctuation == {"{", "}", ",", ":"}
Closers     == {"}", "]"}
WordChars   == {"a", "b", "1"}
Digits      == {"1"}

\* the index of the first c at or after i, 0 when there is none
RECURSIVE IndexOf(_, _, _)
IndexOf(text, c, i) ==
  IF i > Len(text) THEN 0
  ELSE IF text[i] = c THEN i ELSE IndexOf(text, c, i + 1)

\* the index of the first character at or after i that is not in set
RECURSIVE SkipChars(_, _, _)
SkipChars(text, set, i) ==
  IF i <= Len(text) /\ text[i] \in set THEN SkipChars(text, set, i + 1) ELSE i

\* the tokens JSON.parse reads: punctuation, strings, bare words
RECURSIVE Tokens(_, _)
Tokens(text, i) ==
  IF i > Len(text) THEN <<>>
  ELSE IF text[i] = "s" THEN Tokens(text, i + 1)
  ELSE IF text[i] \in Punctuation
    THEN <<[kind |-> text[i], text |-> <<>>]>> \o Tokens(text, i + 1)
  ELSE IF text[i] = "q"
    THEN LET e == IndexOf(text, "q", i + 1)
         IN  IF e = 0 THEN <<[kind |-> "bad", text |-> <<>>]>>
             ELSE <<[kind |-> "string", text |-> SubSeq(text, i + 1, e - 1)]>>
                    \o Tokens(text, e + 1)
  ELSE IF text[i] \in WordChars
    THEN LET e == SkipChars(text, WordChars, i)
         IN  <<[kind |-> "word", text |-> SubSeq(text, i, e - 1)]>>
               \o Tokens(text, e)
  ELSE <<[kind |-> "bad", text |-> <<>>]>>

ParseError == [ok |-> FALSE, value |-> <<>>]

IsNumber(word) == \A i \in 1..Len(word) : word[i] \in Digits

\* the members of an object, read from token i on; acc holds those read.
\* JSON.parse is the strict reading; the lenient reading also takes a bare
\* word as a key and a comma before the closing brace.
RECURSIVE ParseMembers(_, _, _, _)
ParseMembers(toks, i, acc, lenient) ==
  IF i + 3 > Len(toks) THEN ParseError
  ELSE IF ~ \/ toks[i].kind = "string"
            \/ lenient /\ toks[i].kind = "word"
    THEN ParseError
  ELSE IF toks[i + 1].kind # ":" THEN ParseError
  ELSE IF ~ \/ toks[i + 2].kind = "string"
            \/ toks[i + 2].kind = "word" /\ IsNumber(toks[i + 2].text)
    THEN ParseError
  ELSE LET member == [key |-> toks[i].text,
                      type |-> IF toks[i + 2].kind = "string"
                                 THEN "string" ELSE "number",
                      val |-> toks[i + 2].text]
       IN  IF toks[i + 3].kind = "}"
             THEN IF i + 3 = Len(toks)
                    THEN [ok |-> TRUE, value |-> Append(acc, member)]
                    ELSE ParseError
             ELSE IF toks[i + 3].kind # "," THEN ParseError
             ELSE IF lenient /\ i + 4 = Len(toks) /\ toks[i + 4].kind = "}"
                    THEN [ok |-> TRUE, value |-> Append(acc, member)]
                    ELSE ParseMembers(toks, i + 4, Append(acc, member),
                                      lenient)

ParseObject(text, lenient) ==
  LET toks == Tokens(text, 1)
  IN  IF Len(toks) < 2 \/ toks[1].kind # "{" THEN ParseError
      ELSE IF Len(toks) = 2
        THEN IF toks[2].kind = "}" THEN [ok |-> TRUE, value |-> <<>>]
                                   ELSE ParseError
        ELSE ParseMembers(toks, 2, <<>>, lenient)

\* JSON.parse(text): ok with the object read, or not ok (SyntaxError)
JsonParse(text) == ParseObject(text, FALSE)

\* .replace(/,\s*([}\]])/g, '$1'): remove trailing commas
RECURSIVE removeTrailingCommas(_, _)
removeTrailingCommas(text, i) ==
  IF i > Len(text) THEN <<>>
  ELSE LET e == SkipChars(text, {"s"}, i + 1)
       IN  IF text[i] = "," /\ e <= Len(text) /\ text[e] \in Closers
             THEN <<text[e]>> \o removeTrailingCommas(text, e + 1)
             ELSE <<text[i]>> \o removeTrailingCommas(text, i + 1)

\* .replace(/([{,]\s*)(\w+):/g, '$1"$2":'): quote unquoted keys
RECURSIVE quoteUnquotedKeys(_, _)
quoteUnquotedKeys(text, i) ==
  IF i > Len(text) THEN <<>>
  ELSE LET w == SkipChars(text, {"s"}, i + 1)
           e == SkipChars(text, WordChars, w)
       IN  IF text[i] \in {"{", ","} /\ e > w /\ e <= Len(text)
                /\ text[e] = ":"
             THEN SubSeq(text, i, w - 1) \o <<"q">> \o SubSeq(text, w, e - 1)
                    \o <<"q", ":">> \o quoteUnquotedKeys(text, e + 1)
             ELSE <<text[i]>> \o quoteUnquotedKeys(text, i + 1)

\* .replace(/:\s*'([^']*?)'/g, ':"$1"'): single to double quotes
RECURSIVE singleToDoubleQuotes(_, _)
singleToDoubleQuotes(text, i) ==
  IF i > Len(text) THEN <<>>
  ELSE LET o == SkipChars(text, {"s"}, i + 1)
           c == IF o <= Len(text) /\ text[o] = "p"
                  THEN IndexOf(text, "p", o + 1) ELSE 0
       IN  IF text[i] = ":" /\ c > 0
             THEN <<":", "q">> \o SubSeq(text, o + 1, c - 1) \o <<"q">>
                    \o singleToDoubleQuotes(text, c + 1)
             ELSE <<text[i]>> \o singleToDoubleQuotes(text, i + 1)

\* .trim()
RECURSIVE Trim(_)
Trim(text) ==
  IF text = <<>> THEN text
  ELSE IF text[1] = "s" THEN Trim(Tail(text))
  ELSE IF text[Len(text)] = "s" THEN Trim(SubSeq(text, 1, Len(text) - 1))
  ELSE text

\* repairJsonSyntax(json)
repairJsonSyntax(json) ==
  Trim(singleToDoubleQuotes(
         quoteUnquotedKeys(removeTrailingCommas(json, 1), 1), 1))

\* validate(parsed) of the compiled schema: the required property a is
\* there and is a string; other properties are allowed
validate(parsed) ==
  \E i \in 1..Len(parsed) :
     parsed[i].key = <<"a">> /\ parsed[i].type = "string"

Undefined == [ok |-> FALSE, value |-> <<>>]

Returned(value, repairs, calls) ==
  [kind |-> "return", value |-> value, error |-> "none",
   syntax_repairs |-> repairs, repair_calls |-> calls]

Threw(message, repairs, calls) ==
  [kind |-> "throw", value |-> Undefined, error |-> message,
   syntax_repairs |-> repairs, repair_calls |-> calls]

\* a plausible slip: the syntax repair is applied before the first parse
validateAndRepair_repairFirst(resp, repaired) ==
  LET first == JsonParse(repairJsonSyntax(resp))
  IN  IF ~ first.ok THEN Threw("UNPARSEABLE_JSON", 1, 0)
      ELSE IF validate(first.value) THEN Returned(first, 1, 0)
      ELSE IF repaired.throws THEN Threw(repaired.message, 1, 1)
      ELSE LET again == JsonParse(repaired.text)
           IN  IF ~ again.ok THEN Threw("REPAIR_FAILED", 1, 1)
               ELSE IF validate(again.value) THEN Returned(again, 1, 1)
               ELSE Returned(Undefined, 1, 1)

\* a plausible slip: a response that needed the syntax repair is also sent
\* to the repair call
validateAndRepair_alwaysAsk(resp, repaired) ==
  LET direct == JsonParse(resp)
      fixed  == JsonParse(repairJsonSyntax(resp))
      first  == IF direct.ok THEN direct ELSE fixed
      passes == IF direct.ok THEN 0 ELSE 1
  IN  IF ~ first.ok THEN Threw("UNPARSEABLE_JSON", passes, 0)
      ELSE IF validate(first.value) /\ direct.ok
        THEN Returned(first, passes, 0)
      ELSE IF repaired.throws THEN Threw(repaired.message, passes, 1)
      ELSE LET again == JsonParse(repaired.text)
           IN  IF ~ again.ok THEN Threw("REPAIR_FAILED", passes, 1)
               ELSE IF validate(again.value) THEN Returned(again, passes, 1)
               ELSE Returned(Undefined, passes, 1)

\* validateAndRepair(response, schema): resp is the response, repaired is
\* what callGemini answers to the repair prompt if it is asked.  The result
\* tells what is returned or thrown, and how many syntax repair passes and
\* repair calls were made.
validateAndRepair(resp, repaired) ==
  LET direct == JsonParse(resp)
      fixed  == JsonParse(repairJsonSyntax(resp))
      first  == IF direct.ok THEN direct ELSE fixed
      passes == IF direct.ok THEN 0 ELSE 1
  IN  IF ~ first.ok THEN Threw("UNPARSEABLE_JSON", passes, 0)
      ELSE IF validate(first.value) THEN Returned(first, passes, 0)
      ELSE IF repaired.throws THEN Threw(repaired.message, passes, 1)
      ELSE LET again == JsonParse(repaired.text)
           IN  IF ~ again.ok THEN Threw("REPAIR_FAILED", passes, 1)
               ELSE IF validate(again.value) THEN Returned(again, passes, 1)
               ELSE Returned(Undefined, passes, 1)

\* The responses tried: objects of one or two members with distinct keys,
\* each key quoted or not, each value a string, a number, a string that
\* holds punctuation, a single-quoted string or a bare word, with or without
\* blanks after the colons and commas and a trailing comma.
Keys == {<<"a">>, <<"b">>}

Quoted(word) == <<"q">> \o word \o <<"q">>

KeyTexts(k) == {k, Quoted(k)}

ValueTexts ==
  {Quoted(<<"b">>), <<"1">>, Quoted(<<"b", ",", "b", ":", "b">>),
   Quoted(<<"b", ",", "}">>), <<"p", "b", "p">>, <<"b">>}

Blanks == {<<>>, <<"s">>}

MemberTexts(k, blank) ==
  {kt \o <<":">> \o blank \o v : kt \in KeyTexts(k), v \in ValueTexts}

MemberLists(blank) ==
  UNION {MemberTexts(k, blank) : k \in Keys}
    \cup UNION {{m1 \o <<",">> \o blank \o m2 :
                   m1 \in MemberTexts(k1, blank),
                   m2 \in MemberTexts(k2, blank)} :
                <<k1, k2>> \in {kk \in Keys \X Keys : kk[1] # kk[2]}}

Responses ==
  UNION {{<<"{">> \o ms \o comma \o <<"}">> \o blank :
            ms \in MemberLists(blank), comma \in {<<>>, <<",">> \o blank}} :
         blank \in Blanks}

\* what callGemini answers to the repair prompt: a valid payload, a payload
\* that parses and violates the schema, a text that does not parse, or an
\* error of the service
RepairAnswers ==
  {[throws |-> FALSE, message |-> "none", text |-> t] :
      t \in {<<"{">> \o Quoted(<<"a">>) \o <<":">> \o Quoted(<<"b">>)
               \o <<"}">>,
             <<"{">> \o Quoted(<<"b">>) \o <<":">> \o Quoted(<<"b">>)
               \o <<"}">>,
             <<"{">> \o Quoted(<<"a">>) \o <<":">>}}
    \cup {[throws |-> TRUE, message |-> "GEMINI_TIMEOUT", text |-> <<>>]}

NotRun == [kind |-> "none", value |-> Undefined, error |-> "none",
           syntax_repairs |-> 0, repair_calls |-> 0]

NoValidation ==
  [resp |-> <<>>,
   repaired |-> [throws |-> TRUE, message |-> "none", text |-> <<>>],
   out |-> NotRun]

\* one call of validateAndRepair with the arguments drawn at the start
ValidateAndRepair ==
  /\ vr.out = NotRun
  /\ vr' = [vr EXCEPT !.out = validateAndRepair(vr.resp, vr.repaired)]
  /\ UNCHANGED <<now, queueVars, rate, guard, project, context, response,
                 checks, recovery, telemetry, mock>>

\* --------------------------------------------------- failure handling
StepNames   == {"analysis", "generation"}
HandlerKeys == {"RATE_LIMIT_RPM", "RATE_LIMIT_BUDGET", "UNPARSEABLE_JSON",
                "GEMINI_TIMEOUT", "SUPABASE_TIMEOUT", "PERMANENT_FAILURE"}

NoAttempts == -1

\* scheduleJobRetry(projectId, delayMs, attempts, resumePoint): the job of
\* the project is made pending again, due after the delay
scheduleJobRetry(row, t, delay, attempts) ==
  [row EXCEPT !.status = "pending",
              !.scheduled_at = t + delay,
              !.attempts = IF attempts = NoAttempts THEN @ ELSE attempts]

\* failureHandlers['PERMANENT_FAILURE']
PermanentFailure(proj, ctx, job, error) ==
  [project |-> [proj EXCEPT !.status = "failed", !.phase = "failed",
                            !.error_message = error.message,
                            !.needs_manual_review = TRUE],
   context |-> ctx, job |-> job, action |-> "MANUAL_REVIEW_REQUIRED"]

\* failureHandlers[key](project, error, stepName): every result the handler
\* can have.  retry_count is project.retry_count || 0 of the argument.
failureHandlers(key, proj, ctx, job, error, stepName, retry_count, t) ==
  CASE key = "RATE_LIMIT_RPM" ->
         {[project |-> proj, context |-> ctx,
           job |-> scheduleJobRetry(job, t,
                     (WindowSeconds - (t % WindowSeconds)) + jitter,
                     NoAttempts),
           action |-> "DELAYED"] : jitter \in JitterSeconds}
    [] key = "RATE_LIMIT_BUDGET" ->
         {[project |-> [proj EXCEPT !.status = "paused",
                          !.error_message = "Daily budget exceeded"],
           context |-> ctx, job |-> job, action |-> "PAUSED_BUDGET"]}
    [] key = "UNPARSEABLE_JSON" ->
         {[project |-> proj,
           context |-> [ctx EXCEPT
                          !.step_results =
                             [s \in StepNames |->
                                IF s = stepName THEN "fallback" ELSE "absent"],
                          !.current_step = stepName \o "_fallback"],
           job |-> job, action |-> "FALLBACK_USED"]}
    [] key = "GEMINI_TIMEOUT" ->
         IF retry_count >= GeminiMaxRetries
           THEN {PermanentFailure(proj, ctx, job, error)}
           ELSE {[project |-> proj, context |-> ctx,
                  job |-> scheduleJobRetry(job, t,
                            (Pow2(retry_count) * GeminiBaseDelayMs)
                               \div MsPerSecond,
                            retry_count + 1),
                  action |-> "RETRY_BACKOFF"]}
    [] key = "SUPABASE_TIMEOUT" ->
         {[project |-> proj, context |-> ctx,
           job |-> scheduleJobRetry(job, t, StorageRetrySeconds, 0),
           action |-> "RESUME_FROM_CHECKPOINT"]}
    [] OTHER -> {PermanentFailure(proj, ctx, job, error)}

\* failureHandlers[error.code] || failureHandlers['PERMANENT_FAILURE']
HandlerFor(error) ==
  IF error.code \in HandlerKeys THEN error.code ELSE "PERMANENT_FAILURE"

\* handleFailure({ id: projectId }, error, stepName), with ctx the stored
\* context when it is called and a log of at most cap entries
handleFailureIn(cap, ctx, error, stepName) ==
  /\ Len(project.error_log) < cap
  /\ \E r \in failureHandlers(HandlerFor(error), project, ctx,
                              jobs[ProjectJob], error, stepName, 0, now) :
       /\ project' = [r.project EXCEPT !.error_log =
                        Append(@, [timestamp |-> now, step |-> stepName,
                                   error |-> error.message,
                                   code |-> error.code,
                                   action |-> r.action])]
       /\ context' = r.context
       /\ jobs' = [jobs EXCEPT ![ProjectJob] = r.job]

handleFailure(error, stepName) ==
  handleFailureIn(MaxErrorLog, context, error, stepName)

\* ------------------------------------------------- failure classification
\* ErrorRecoverySystem (packages/utils/src/error-recovery.ts)

\* the substrings classifyError looks for
Keywords ==
  {"rate limit", "429", "timeout", "504", "json", "parse", "budget", "quota"}

\* message.toLowerCase().includes(k): the keywords the message contains
Mentions(message) ==
  CASE message = "GEMINI_TIMEOUT"    -> {"timeout"}
    [] message = "SUPABASE_TIMEOUT"  -> {"timeout"}
    [] message = "RATE_LIMIT_RPM"    -> {}
    [] message = "RATE_LIMIT_BUDGET" -> {"budget"}
    [] message = "UNPARSEABLE_JSON"  -> {"parse", "json"}
    [] message = "REPAIR_FAILED"     -> {}
    [] message = "429 Rate limit exceeded" -> {"rate limit", "429"}
    [] message = "Quota exceeded, request timeout" -> {"quota", "timeout"}
    [] message = "Unexpected token in JSON" -> {"json"}
    [] OTHER -> {}

\* classifyError(error)
classifyError(error) ==
  LET found == Mentions(error.message)
  IN  IF "rate limit" \in found \/ "429" \in found THEN "RATE_LIMIT_RPM"
      ELSE IF "timeout" \in found \/ "504" \in found THEN "GEMINI_TIMEOUT"
      ELSE IF "json" \in found \/ "parse" \in found THEN "UNPARSEABLE_JSON"
      ELSE IF "budget" \in found \/ "quota" \in found
        THEN "RATE_LIMIT_BUDGET"
      ELSE "UNKNOWN_ERROR"

\* this.strategies
strategies ==
  [RATE_LIMIT_RPM |->
     [maxRetries |-> 5, backoffMultiplier |-> 2, initialDelay |-> 1000,
      maxDelay |-> 60000, jitter |-> TRUE],
   GEMINI_TIMEOUT |->
     [maxRetries |-> 3, backoffMultiplier |-> 2, initialDelay |-> 2000,
      maxDelay |-> 16000, jitter |-> FALSE],
   UNPARSEABLE_JSON |->
     [maxRetries |-> 1, backoffMultiplier |-> 1, initialDelay |-> 0,
      maxDelay |-> 0, jitter |-> FALSE]]

RECURSIVE Pow(_, _)
Pow(base, n) == IF n = 0 THEN 1 ELSE base * Pow(base, n - 1)

\* calculateBackoff(attempt, strategy): every delay it can return; the
\* jitter is drawn from the ends and the middle of its range of +-25%
calculateBackoff(attempt, strategy) ==
  LET delay == Min(strategy.initialDelay
                     * Pow(strategy.backoffMultiplier, attempt),
                   strategy.maxDelay)
  IN  IF strategy.jitter /\ delay > 0
        THEN {(delay * 3) \div 4, delay, ((delay * 5) \div 4) - 1}
        ELSE {delay}

NoDelay == -1

\* a plausible slip: an error of no known kind is retried like a timeout
handleError_retryUnknown(error, attemptCount) ==
  LET failureType == IF classifyError(error) \in DOMAIN strategies
                       THEN classifyError(error) ELSE "GEMINI_TIMEOUT"
  IN  IF attemptCount >= strategies[failureType].maxRetries
        THEN {[action |-> "MAX_RETRIES_EXCEEDED", delayMs |-> NoDelay,
               shouldNotify |-> TRUE]}
        ELSE {[action |-> "RETRY", delayMs |-> d, shouldNotify |-> FALSE] :
                d \in calculateBackoff(attemptCount,
                                       strategies[failureType])}

\* handleError(error, context): every RecoveryAction it can return
handleError(error, attemptCount) ==
  LET failureType == classifyError(error)
  IN  IF failureType \notin DOMAIN strategies
        THEN {[action |-> "PERMANENT_FAILURE", delayMs |-> NoDelay,
               shouldNotify |-> TRUE]}
      ELSE IF attemptCount >= strategies[failureType].maxRetries
        THEN {[action |-> "MAX_RETRIES_EXCEEDED", delayMs |-> NoDelay,
               shouldNotify |-> TRUE]}
        ELSE {[action |-> "RETRY", delayMs |-> d, shouldNotify |-> FALSE] :
                d \in calculateBackoff(attemptCount,
                                       strategies[failureType])}

\* the errors given to the classification: those of the failure matrix, with
\* and without a code, and errors of other origins
RecoveryErrors ==
  ExternalErrors
    \cup {[code |-> "ECONNRESET", message |-> "socket hang up"],
          [code |-> "PERMANENT_FAILURE", message |-> "socket hang up"],
          Thrown("429 Rate limit exceeded"),
          Thrown("Quota exceeded, request timeout"),
          Thrown("Unexpected token in JSON"),
          Thrown("Cannot read properties of undefined")}

NoRecovery ==
  [error |-> Ok, attemptCount |-> 0, classified |-> FALSE,
   handler |-> "none",
   result |-> [action |-> "none", delayMs |-> NoDelay,
               shouldNotify |-> FALSE]]

\* the error is given to handleFailure's dispatch and to handleError
ClassifyError ==
  /\ ~ recovery.classified
  /\ \E r \in handleError(recovery.error, recovery.attemptCount) :
       recovery' = [recovery EXCEPT !.classified = TRUE,
                                    !.handler = HandlerFor(recovery.error),
                                    !.result = r]
  /\ UNCHANGED <<now, queueVars, rate, guard, project, context, response,
                 vr, checks, telemetry, mock>>

\* -------------------------------------------------------------- telemetry
\* TelemetryCollector.  Times and durations are left out.
TelemetrySteps == {"precompute", "gemini_analysis"}
TokenCounts    == {0, 700}

\* this.metrics.steps[stepName] is not there
NoStep ==
  [started |-> FALSE, ended |-> FALSE, success |-> FALSE, tokenCount |-> 0,
   retryCount |-> 0]

\* this.metrics of the constructor
NewMetrics == [steps |-> [n \in TelemetrySteps |-> NoStep], errors |-> <<>>]

RECURSIVE SumTokens(_, _)
SumTokens(steps, names) ==
  IF names = {} THEN 0
  ELSE LET n == CHOOSE m \in names : TRUE
       IN  steps[n].tokenCount + SumTokens(steps, names \ {n})

\* the telemetry column of the project before any flush
NoTelemetryColumn ==
  [written |-> FALSE, totalTokens |-> 0, stepMetrics |-> NewMetrics.steps,
   errors |-> <<>>]

NoTelemetry ==
  [metrics |-> NewMetrics, column |-> NoTelemetryColumn, flushes |-> 0]

TelemetryUnchanged ==
  UNCHANGED <<now, queueVars, rate, guard, project, context, response, vr,
              checks, recovery, mock>>

\* startStep(stepName)
startStep(stepName) ==
  /\ telemetry' = [telemetry EXCEPT !.metrics.steps[stepName] =
                     [NoStep EXCEPT !.started = TRUE]]
  /\ TelemetryUnchanged

\* endStep(stepName, success, tokens, retries = 0); the step has to be there
endStep(stepName, success, tokens) ==
  /\ telemetry.metrics.steps[stepName].started
  /\ telemetry' = [telemetry EXCEPT !.metrics.steps[stepName] =
                     [@ EXCEPT !.ended = TRUE, !.success = success,
                               !.tokenCount = tokens, !.retryCount = 0]]
  /\ TelemetryUnchanged

\* recordError(stepName, error)
recordError(stepName, error) ==
  /\ Len(telemetry.metrics.errors) < MaxTelemetryErrors
  /\ telemetry' = [telemetry EXCEPT !.metrics.errors =
                     Append(@, [step |-> stepName, error |-> error.message])]
  /\ TelemetryUnchanged

\* flush(): the summary is written to projects.telemetry
flush ==
  /\ telemetry.flushes < MaxFlushes
  /\ telemetry' = [telemetry EXCEPT
        !.column = [written |-> TRUE,
                    totalTokens |-> SumTokens(telemetry.metrics.steps,
                                              TelemetrySteps),
                    stepMetrics |-> telemetry.metrics.steps,
                    errors |-> telemetry.metrics.errors],
        !.flushes = @ + 1]
  /\ TelemetryUnchanged

\* ------------------------------------------------------ the mock service
\* MockAIService.analyzeCSV.  csvData is a list of rows, the first of them
\* the headers.  The random nullPercentage and uniqueCount of a column
\* profile are left out.
Cells        == {"x", "1"}
NumericCells == {"1"}
UndefinedCell == "undefined"

RECURSIVE SeqsUpTo(_, _)
SeqsUpTo(S, n) ==
  IF n = 0 THEN {<<>>}
  ELSE LET shorter == SeqsUpTo(S, n - 1)
       IN  shorter \cup {Append(q, x) : q \in {r \in shorter : Len(r) = n - 1},
                                        x \in S}

CsvRows   == SeqsUpTo(Cells, MaxCsvColumns)
CsvInputs == SeqsUpTo(CsvRows, MaxCsvRows)

\* Array.prototype.slice(lo, hi) with 0 <= lo <= hi
slice(list, lo, hi) ==
  SubSeq(list, lo + 1, IF hi < Len(list) THEN hi ELSE Len(list))

\* a plausible slip: one metaphor for each column
generateMockMetaphors_perColumn(headers, rowCount) ==
  [i \in 1..Len(headers) |-> "Organic"]

\* generateMockMetaphors(headers, rowCount): the categories of the list
generateMockMetaphors(headers, rowCount) ==
  <<"Organic", "Geometric", "Flow">>

\* columnProfiles[header].detectedType
detectedType(csvData, index) ==
  LET sampleValues == slice(csvData, 1, 6)
      hasNumbers == \E r \in 1..Len(sampleValues) :
                      /\ index <= Len(sampleValues[r])
                      /\ sampleValues[r][index] \in NumericCells
  IN  IF hasNumbers THEN "numerical" ELSE "categorical"

columnProfiles(csvData) ==
  LET headers == csvData[1]
      names == {headers[i] : i \in 1..Len(headers)}
      last(h) == CHOOSE i \in 1..Len(headers) :
                   /\ headers[i] = h
                   /\ \A k \in (i + 1)..Len(headers) : headers[k] # h
  IN  [h \in names |-> detectedType(csvData, last(h))]

MockThrew ==
  [threw |-> TRUE, columnProfiles |-> <<>>, patterns |-> <<>>,
   metaphors |-> <<>>, rows |-> 0, columns |-> 0]

\* analyzeCSV(csvData): csvData[0] of an empty list is undefined, and
\* undefined.forEach throws
analyzeCSV(csvData) ==
  IF Len(csvData) = 0 THEN MockThrew
  ELSE LET headers == csvData[1]
           rowCount == Len(csvData) - 1
       IN  [threw |-> FALSE,
            columnProfiles |-> columnProfiles(csvData),
            patterns |-> <<slice(headers, 0, 2),
                           IF Len(headers) = 0 THEN <<UndefinedCell>>
                                               ELSE <<headers[1]>>,
                           slice(headers, 1, 3)>>,
            metaphors |-> generateMockMetaphors(headers, rowCount),
            rows |-> rowCount, columns |-> Len(headers)]

NoMock == [called |-> FALSE, csvData |-> <<>>, out |-> MockThrew]

\* a call of analyzeCSV
MockAnalyzeCSV(csvData) ==
  /\ mock' = [called |-> TRUE, csvData |-> csvData, out |-> analyzeCSV(csvData)]
  /\ UNCHANGED <<now, queueVars, rate, guard, project, context, response, vr,
                 checks, recovery, telemetry>>

\* the response of a request: the function, the telemetry steps the request
\* started, the HTTP status, and the fields success, error and
\* recovery.action of the body
NoResponse ==
  [op |-> "none", success |-> FALSE, steps |-> <<>>, status |-> 0,
   error |-> "none", recovery |-> "none"]

\* the response of the try block: status 200 by default
Responded(op, steps) ==
  [op |-> op, success |-> TRUE, steps |-> steps, status |-> 200,
   error |-> "none", recovery |-> "none"]

\* status: result.action === 'PERMANENT_FAILURE' ? 500 : 202
failureStatus(action) == IF action = "PERMANENT_FAILURE" THEN 500 ELSE 202

\* the response of the catch block; action is result.action of handleFailure
Caught(op, steps, error, action) ==
  [op |-> op, success |-> FALSE, steps |-> steps,
   status |-> failureStatus(action), error |-> error.message,
   recovery |-> action]

\* the action of the entry handleFailure has just logged
LoggedAction(proj) == proj.error_log[Len(proj.error_log)].action

\* a plausible slip: the first of the two stages reports half of the progress
analysisUpdate_halfProgress(proj) ==
  [proj EXCEPT !.phase = "selecting", !.generation_progress = 50]

\* the update of projects that analyze-csv makes when it has succeeded
analysisUpdate(proj) ==
  [proj EXCEPT !.phase = "selecting", !.generation_progress = 100]

\* a plausible slip: generate-visualization runs the analysis step again
generationSteps_reanalyse(syntaxValid) ==
  IF syntaxValid THEN <<"gemini_analysis", "d3_generation">>
                 ELSE <<"gemini_analysis", "d3_generation", "d3_repair">>

\* the telemetry steps generate-visualization starts once it is admitted
generationSteps(syntaxValid) ==
  IF syntaxValid THEN <<"d3_generation">>
                 ELSE <<"d3_generation", "d3_repair">>

\* the telemetry steps analyze-csv starts once it is admitted
analysisSteps == <<"precompute", "gemini_analysis">>

\* analyze-csv, "6. Persist results": the upsert of the context
analysisUpsert(ctx) ==
  [ctx EXCEPT !.step_results = [s \in StepNames |->
                                  IF s = "analysis" THEN "validated"
                                                    ELSE "absent"],
              !.current_step = "analysis_complete"]

\* Function A, analyze-csv: one request.  outcome is "ok" or the error the
\* generation call, the validation or the storage throws.  A storage error
\* is thrown by the upsert of the context, or, when upserted is true, by
\* the update of the project that follows it.  The error log holds at most
\* cap entries.
AnalyzeCsvIn(cap, estimatedTokens, outcome, upserted) ==
  /\ guard.admitted < MaxAdmitted
  /\ guard.unrecorded < MaxAdmitted
  /\ LET r == checkRateLimit(rate, now, estimatedTokens)
     IN  /\ rate' = checkRateLimitStore(rate, now)
         /\ guard' = GuardAfter(rate, now, r)
         /\ IF r # "ok"
              THEN /\ handleFailureIn(cap, context, Thrown(r), "analysis")
                   /\ response' = Caught("analyze-csv", <<>>, Thrown(r),
                                         LoggedAction(project'))
              ELSE IF outcome = Ok
                THEN /\ context' = analysisUpsert(context)
                     /\ project' = analysisUpdate(project)
                     /\ response' = Responded("analyze-csv", analysisSteps)
                     /\ UNCHANGED jobs
                ELSE /\ handleFailureIn(cap,
                          IF upserted /\ outcome.code = "SUPABASE_TIMEOUT"
                            THEN analysisUpsert(context) ELSE context,
                          outcome, "analysis")
                     /\ response' = Caught("analyze-csv", analysisSteps,
                                           outcome, LoggedAction(project'))
  /\ UNCHANGED <<now, workers, hist, libVars>>

AnalyzeCsv(estimatedTokens, outcome) ==
  AnalyzeCsvIn(MaxErrorLog, estimatedTokens, outcome, FALSE)

\* Function B, generate-visualization: one request.  syntaxValid tells
\* whether the generated code passes validateD3Syntax; if not, the repair
\* call B2 is made and its code or the fallback template is stored.
GenerateVisualizationIn(cap, estimatedTokens, outcome, syntaxValid) ==
  /\ guard.admitted < MaxAdmitted
  /\ guard.unrecorded < MaxAdmitted
  /\ LET r == checkRateLimit(rate, now, estimatedTokens)
     IN  /\ rate' = checkRateLimitStore(rate, now)
         /\ guard' = GuardAfter(rate, now, r)
         /\ IF r # "ok"
              THEN /\ handleFailureIn(cap, context, Thrown(r), "generation")
                   /\ response' = Caught("generate-visualization", <<>>,
                                         Thrown(r), LoggedAction(project'))
              ELSE IF outcome = Ok
                THEN /\ project' = [project EXCEPT
                           !.phase = "exporting",
                           !.status = "completed",
                           !.generation_progress = 100]
                     /\ response' = Responded("generate-visualization",
                                              generationSteps(syntaxValid))
                     /\ UNCHANGED <<context, jobs>>
                ELSE /\ handleFailureIn(cap, context, outcome, "generation")
                     /\ response' = Caught("generate-visualization",
                                           generationSteps(syntaxValid),
                                           outcome, LoggedAction(project'))
  /\ UNCHANGED <<now, workers, hist, libVars>>

GenerateVisualization(estimatedTokens, outcome, syntaxValid) ==
  GenerateVisualizationIn(MaxErrorLog, estimatedTokens, outcome, syntaxValid)

\* the user picks one of the suggested metaphors
SelectMetaphor ==
  /\ project.phase = "selecting"
  /\ project' = [project EXCEPT !.phase = "generating"]
  /\ UNCHANGED <<now, queueVars, rate, guard, context, response, libVars>>

\* ------------------------------------------------------------ behaviours
NewProject ==
  [status |-> "draft", phase |-> "idle", generation_progress |-> 0,
   needs_manual_review |-> FALSE, error_message |-> "none",
   error_log |-> <<>>,
   token_usage |-> [step |-> "none", input |-> 0, output |-> 0,
                    step_cost |-> 0, total_cost |-> 0]]

NewContext ==
  [step_results |-> [s \in StepNames |-> "absent"], current_step |-> "none"]

NewRate(cost, t) ==
  [requests_this_minute |-> 0, last_request_at |-> t,
   daily_cost_usd |-> cost, daily_reset_at |-> NextMidnight(t)]

NewGuard(t) ==
  [window_start |-> t, admitted |-> 0, budget_denied |-> FALSE, records |-> 0,
   unrecorded |-> 0]

\* the parts that are not in use
InitAside ==
  /\ recovery = NoRecovery
  /\ telemetry = NoTelemetry
  /\ mock = NoMock

InitCommon ==
  /\ workers = [w \in Workers |-> IdleWorker]
  /\ hist = [j \in JobIds |-> [timeouts |-> 0, clean |-> TRUE,
                            abandoned |-> FALSE]]
  /\ project = NewProject
  /\ context = NewContext
  /\ response = NoResponse
  /\ checks = [c \in Callers |-> IdleCheck(NewRate(0, 0))]
  /\ InitAside

\* the job queue with its workers
InitQueue ==
  /\ InitCommon
  /\ now = 0
  /\ guard = NewGuard(0)
  /\ jobs \in [JobIds -> {NewJob(m) : m \in MaxAttemptsValues}]
  /\ rate = NewRate(0, 0)
  /\ vr = NoValidation

NextQueue ==
  \/ \E d \in QueueClockSteps : Tick(d, MaxNowQueue)
  \/ \E w \in Workers : SelectJob(w)
  \/ \E w \in Workers : NoJobs(w)
  \/ \E w \in Workers : ProcessJobReturns(w)
  \/ \E w \in Workers, m \in JobErrors : ProcessJobThrows(w, m)

SpecQueue == InitQueue /\ [][NextQueue]_vars

\* the job queue polled by one worker at a time
NextQueueSeq ==
  \/ \E d \in QueueClockSteps : Tick(d, MaxNowQueue)
  \/ SelectJob(1)
  \/ NoJobs(1)
  \/ ProcessJobReturns(1)
  \/ \E m \in JobErrors : ProcessJobThrows(1, m)

SpecQueueSeq == InitQueue /\ [][NextQueueSeq]_vars

\* the same, with the worker invoked again and again, every processJob
\* coming to an end and the clock advancing
SpecQueueFair ==
  /\ InitQueue
  /\ [][NextQueueSeq]_vars
  /\ WF_vars(\E d \in QueueClockSteps : Tick(d, MaxNowQueue))
  /\ WF_vars(SelectJob(1) \/ NoJobs(1))
  /\ WF_vars(ProcessJobReturns(1)
               \/ \E m \in JobErrors : ProcessJobThrows(1, m))

\* the job queue polled by one worker whose invocations can be terminated
\* before they end; the worker is invoked again and again and the clock
\* advances
NextQueueAbandon ==
  \/ \E d \in QueueClockSteps : Tick(d, MaxNowQueue)
  \/ SelectJob(1)
  \/ NoJobs(1)
  \/ ProcessJobReturns(1)
  \/ \E m \in JobErrors : ProcessJobThrows(1, m)
  \/ Abandon(1)

SpecQueueAbandon ==
  /\ InitQueue
  /\ [][NextQueueAbandon]_vars
  /\ WF_vars(\E d \in QueueClockSteps : Tick(d, MaxNowQueue))
  /\ WF_vars(SelectJob(1) \/ NoJobs(1))

\* the two functions, the guard and the cost tracking of one user, with a
\* generation service and a storage that do not fail
InitGuard ==
  /\ InitCommon
  /\ now = GuardStart
  /\ guard = NewGuard(GuardStart)
  /\ jobs = [j \in JobIds |-> NewJob(DefaultMaxAttempts)]
  /\ rate \in {NewRate(c, GuardStart) : c \in InitialDailyCosts}
  /\ vr = NoValidation

NextGuard ==
  \/ \E d \in GuardClockSteps : Tick(d, MaxNowGuard)
  \/ \E n \in AnalysisEstimates : AnalyzeCsv(n, Ok)
  \/ \E n \in GenerationEstimates : GenerateVisualization(n, Ok, TRUE)
  \/ \E u \in UsageReports : TrackTokenUsage(u)

SpecGuard == InitGuard /\ [][NextGuard]_vars

\* the two functions called in any order on one project within one minute,
\* with a generation service that can fail, and the user's selection
PipelineOutcomes ==
  {Ok, Thrown("REPAIR_FAILED"),
   [code |-> "GEMINI_TIMEOUT", message |-> "GEMINI_TIMEOUT"]}

InitPipeline ==
  /\ InitCommon
  /\ now = GuardStart
  /\ guard = NewGuard(GuardStart)
  /\ jobs = [j \in JobIds |-> NewJob(DefaultMaxAttempts)]
  /\ rate = NewRate(0, GuardStart)
  /\ vr = NoValidation

NextPipeline ==
  \/ \E n \in AnalysisEstimates, o \in PipelineOutcomes : AnalyzeCsv(n, o)
  \/ \E n \in GenerationEstimates, o \in PipelineOutcomes,
        syntaxValid \in BOOLEAN : GenerateVisualization(n, o, syntaxValid)
  \/ SelectMetaphor

SpecPipeline == InitPipeline /\ [][NextPipeline]_vars

\* the tables at rest, while one of the library functions is exercised
InitStill ==
  /\ workers = [w \in Workers |-> IdleWorker]
  /\ hist = [j \in JobIds |-> [timeouts |-> 0, clean |-> TRUE,
                            abandoned |-> FALSE]]
  /\ project = NewProject
  /\ context = NewContext
  /\ response = NoResponse
  /\ now = 0
  /\ guard = NewGuard(0)
  /\ jobs = [j \in JobIds |-> NewJob(DefaultMaxAttempts)]
  /\ rate = NewRate(0, 0)

\* one TelemetryCollector used in any order
InitTelemetry ==
  /\ InitStill
  /\ vr = NoValidation
  /\ checks = [c \in Callers |-> IdleCheck(rate)]
  /\ recovery = NoRecovery
  /\ mock = NoMock
  /\ telemetry = NoTelemetry

NextTelemetry ==
  \/ \E n \in TelemetrySteps : startStep(n)
  \/ \E n \in TelemetrySteps, ok \in BOOLEAN, t \in TokenCounts :
        endStep(n, ok, t)
  \/ \E n \in TelemetrySteps : recordError(n, Thrown("REPAIR_FAILED"))
  \/ flush

SpecTelemetry == InitTelemetry /\ [][NextTelemetry]_vars

\* the mock service called with each list of rows
InitMock ==
  /\ InitStill
  /\ vr = NoValidation
  /\ checks = [c \in Callers |-> IdleCheck(rate)]
  /\ recovery = NoRecovery
  /\ telemetry = NoTelemetry
  /\ mock = NoMock

\* the service keeps no state between calls, so a behaviour is one call
NextMock ==
  /\ ~ mock.called
  /\ \E csvData \in CsvInputs : MockAnalyzeCSV(csvData)

SpecMock == InitMock /\ [][NextMock]_vars

\* requests whose generation call times out every time
GeminiTimeout == [code |-> "GEMINI_TIMEOUT", message |-> "GEMINI_TIMEOUT"]

InitTimeouts ==
  /\ InitCommon
  /\ now = GuardStart
  /\ guard = NewGuard(GuardStart)
  /\ jobs = [j \in JobIds |-> NewJob(DefaultMaxAttempts)]
  /\ rate = NewRate(0, GuardStart)
  /\ vr = NoValidation

NextTimeouts ==
  \/ \E d \in GuardClockSteps : Tick(d, MaxNowGuard)
  \/ \E n \in AnalysisEstimates :
        AnalyzeCsvIn(MaxTimeoutRuns, n, GeminiTimeout, FALSE)
  \/ \E n \in GenerationEstimates :
        GenerateVisualizationIn(MaxTimeoutRuns, n, GeminiTimeout, TRUE)

SpecTimeouts == InitTimeouts /\ [][NextTimeouts]_vars

\* the two functions on one project with a generation service and a
\* storage that fail in every way; the row of the user was created, and
\* last_request_at with it, at the start or 20 s before it
RateRowCreated == {GuardStart - 20, GuardStart}

RecoverOutcomes == ExternalErrors \cup {Ok}

InitRecover ==
  /\ InitCommon
  /\ now = GuardStart
  /\ guard = NewGuard(GuardStart)
  /\ jobs = [j \in JobIds |-> NewJob(DefaultMaxAttempts)]
  /\ rate \in {[NewRate(0, GuardStart) EXCEPT !.last_request_at = t] :
                t \in RateRowCreated}
  /\ vr = NoValidation

\* the clock reaches the time of a run rescheduled by the storage handler
RecoverHorizon == GuardStart + StorageRetrySeconds

NextRecover ==
  \/ Tick(StorageRetrySeconds, RecoverHorizon)
  \/ \E n \in GenerationEstimates, o \in RecoverOutcomes,
        upserted \in BOOLEAN : AnalyzeCsvIn(MaxErrorLog, n, o, upserted)
  \/ \E n \in GenerationEstimates, o \in RecoverOutcomes :
        GenerateVisualization(n, o, TRUE)
  \/ SelectMetaphor

SpecRecover == InitRecover /\ [][NextRecover]_vars

\* the failure classification applied to each error at each attempt count
InitRecovery ==
  /\ InitStill
  /\ vr = NoValidation
  /\ checks = [c \in Callers |-> IdleCheck(rate)]
  /\ telemetry = NoTelemetry
  /\ mock = NoMock
  /\ recovery \in {[NoRecovery EXCEPT !.error = e, !.attemptCount = n] :
                     e \in RecoveryErrors, n \in 0..MaxAttemptCount}

NextRecovery == ClassifyError

SpecRecovery == InitRecovery /\ [][NextRecovery]_vars

\* calls of checkRateLimit that overlap, and the recording of costs
InitReset ==
  /\ workers = [w \in Workers |-> IdleWorker]
  /\ hist = [j \in JobIds |-> [timeouts |-> 0, clean |-> TRUE,
                            abandoned |-> FALSE]]
  /\ project = NewProject
  /\ context = NewContext
  /\ response = NoResponse
  /\ now = GuardStart
  /\ guard = NewGuard(GuardStart)
  /\ jobs = [j \in JobIds |-> NewJob(DefaultMaxAttempts)]
  /\ rate = NewRate(CHOOSE c \in InitialDailyCosts :
                       \A d \in InitialDailyCosts : c >= d, GuardStart)
  /\ checks = [c \in Callers |-> IdleCheck(rate)]
  /\ vr = NoValidation
  /\ InitAside

NextReset ==
  \/ \E d \in GuardClockSteps : Tick(d, MaxNowGuard)
  \/ \E c \in Callers : SelectLimit(c)
  \/ \E c \in Callers, n \in GenerationEstimates : FinishCheck(c, n)
  \/ \E u \in UsageReports : TrackTokenUsage(u)

SpecReset == InitReset /\ [][NextReset]_vars

\* validateAndRepair applied to each response and each repair answer
InitRepair ==
  /\ InitCommon
  /\ now = 0
  /\ guard = NewGuard(0)
  /\ jobs = [j \in JobIds |-> NewJob(DefaultMaxAttempts)]
  /\ rate = NewRate(0, 0)
  /\ vr \in {[resp |-> r, repaired |-> a, out |-> NotRun] :
               r \in Responses, a \in RepairAnswers}

NextRepair == ValidateAndRepair

SpecRepair == InitRepair /\ [][NextRepair]_vars

\* ---------------------------------------------------------- properties

\* the step in which worker w ends an invocation of handleJobQueue
Finishes(w, results) ==
  /\ workers[w].pc = "processing"
  /\ workers'[w].pc = "idle"
  /\ workers'[w].result \in results

\* the delay, in ms, between now and the scheduled_at a step leaves in job j
AppliedDelayMs(j) == (jobs'[j].scheduled_at - now) * MsPerSecond

\* C1: when two workers run the job-claim operation against the same
\* pending, due job, exactly one of them obtains it: no two invocations
\* hold the same job at the same time.
C1_ExclusiveClaim ==
  \A w1 \in Workers, w2 \in Workers :
    (w1 # w2 /\ workers[w1].pc = "processing"
             /\ workers[w2].pc = "processing")
      => workers[w1].job.id # workers[w2].job.id

\* C2: in every reachable state every job has attempts <= max_attempts.
C2_AttemptsWithinMax ==
  \A j \in JobIds : jobs[j].attempts <= jobs[j].max_attempts

\* a job has used all its attempts: it was rescheduled and then failed
C2_Witness ==
  \E j \in JobIds : /\ jobs[j].status = "failed"
                    /\ jobs[j].attempts >= 1
                    /\ jobs[j].attempts = jobs[j].max_attempts - 1

\* C3: a job whose stored status is failed has stored attempts equal to
\* max_attempts.
C3_FailedHasMaxAttempts ==
  \A j \in JobIds :
    jobs[j].status = "failed" => jobs[j].attempts = jobs[j].max_attempts

\* C4: when processing of a claimed job finishes successfully, the stored
\* status of the job becomes completed.
C4_SuccessCompletes ==
  [][\A w \in Workers :
        Finishes(w, {"returned"})
          => jobs'[workers[w].job.id].status = "completed"]_vars

\* C5: a job that is completed, or failed for good, is terminal: its status
\* never changes again.
C5_TerminalStays ==
  [][\A j \in JobIds :
        jobs[j].status \in {"completed", "failed"}
          => jobs'[j].status = jobs[j].status]_vars

\* C6: the number of calls admitted for the user within one minute window
\* never exceeds the RPM ceiling.
C6_RpmCeilingHolds == guard.admitted <= RpmCeiling

\* C7: daily_cost_usd never exceeds the budget ceiling unless an admit call
\* of that day has already returned the RATE_LIMIT_BUDGET denial.
C7_BudgetNeverExceededUndenied ==
  rate.daily_cost_usd > DailyBudget => guard.budget_denied

\* the step in which handleFailure logs the error with the given message
Handles(message) ==
  /\ Len(project'.error_log) = Len(project.error_log) + 1
  /\ project'.error_log[Len(project'.error_log)].error = message

\* C8: with daily_cost_usd = 0.48, ceiling 0.50 and a call estimated at
\* 0.05, admit denies with RATE_LIMIT_BUDGET and handling the denial moves
\* the project to paused, not to failed.
C8_BudgetDenialPauses ==
  [][(rate.daily_cost_usd = 4800000 /\ rate.daily_reset_at >= now
        /\ Handles("RATE_LIMIT_BUDGET"))
       => (project'.status = "paused" /\ project'.phase # "failed")]_vars

\* the failure path of the project has recorded a permanent failure
PermanentFailureRecorded ==
  \/ project.phase = "failed"
  \/ \E i \in 1..Len(project.error_log) :
       project.error_log[i].action = "MANUAL_REVIEW_REQUIRED"

\* C9: a job with max_attempts = 3 that fails three consecutive times with
\* the generation timeout ends with status = failed and attempts = 3, and
\* the failure path of its project records PERMANENT_FAILURE.
C9_ThreeTimeoutsFail ==
  \A j \in JobIds :
    (jobs[j].max_attempts = 3 /\ hist[j].clean /\ hist[j].timeouts = 3)
      => /\ jobs[j].status = "failed"
         /\ jobs[j].attempts = 3
         /\ PermanentFailureRecorded

\* the delays of the claim: 4000 ms, 8000 ms, 16000 ms
BackoffTableMs == <<4000, 8000, 16000>>

AlreadyValid(resp) == JsonParse(resp).ok /\ validate(JsonParse(resp).value)

\* C11: a response that already parses and conforms to the schema is
\* returned as the payload it parses to, with no syntax repair pass and no
\* repair call.
C11_ValidReturnedUnchanged ==
  (vr.out # NotRun /\ AlreadyValid(vr.resp))
    => vr.out = Returned(JsonParse(vr.resp), 0, 0)

\* a valid response whose string holds a comma before a closing brace, which
\* a repair pass would rewrite, has been validated
C11_Witness ==
  /\ vr.out.kind = "return"
  /\ AlreadyValid(vr.resp)
  /\ \E i \in 1..Len(vr.out.value.value) :
        vr.out.value.value[i].val = <<"b", ",", "}">>

\* the only defects of the response are unquoted keys and trailing commas:
\* JSON.parse rejects it, and read with bare keys and a comma before the
\* closing brace allowed it is an object that conforms to the schema
OnlySyntaxDefects(resp) ==
  /\ ~ JsonParse(resp).ok
  /\ ParseObject(resp, TRUE).ok
  /\ validate(ParseObject(resp, TRUE).value)

\* C12: a response whose only defects are trailing commas and unquoted keys
\* yields a valid payload by the deterministic repair alone, without the
\* repair call.
C12_SyntaxDefectsRepaired ==
  (vr.out # NotRun /\ OnlySyntaxDefects(vr.resp))
    => /\ vr.out.kind = "return"
       /\ vr.out.value.ok
       /\ validate(vr.out.value.value)
       /\ vr.out.repair_calls = 0

\* the repair call was made and its answer is not a conforming payload
RepairAnswerInvalid ==
  /\ vr.out.repair_calls > 0
  /\ ~ vr.repaired.throws
  /\ ~ AlreadyValid(vr.repaired.text)

\* C13: when the answer of the repair call still fails validation, the
\* call fails with REPAIR_FAILED, and no value that violates the schema is
\* ever returned.
C13_FailedRepairThrows ==
  /\ RepairAnswerInvalid
       => vr.out.kind = "throw" /\ vr.out.error = "REPAIR_FAILED"
  /\ vr.out.kind = "return"
       => vr.out.value.ok /\ validate(vr.out.value.value)

\* C14: the repair call is made once when the parsed value fails the
\* schema validation and not at all otherwise, after at most one syntax
\* repair pass.
C14_OneRepairCallIffInvalid ==
  vr.out # NotRun =>
    LET direct == JsonParse(vr.resp)
        parsed == IF direct.ok THEN direct
                               ELSE JsonParse(repairJsonSyntax(vr.resp))
    IN  /\ vr.out.repair_calls
             = IF parsed.ok /\ ~ validate(parsed.value) THEN 1 ELSE 0
        /\ vr.out.syntax_repairs = IF direct.ok THEN 0 ELSE 1

\* a response that needed the syntax repair and then failed the schema was
\* sent to the repair call once, and the conforming answer was returned
C14_Witness ==
  /\ vr.out.syntax_repairs = 1
  /\ vr.out.repair_calls = 1
  /\ vr.out.kind = "return"
  /\ vr.out.value.ok

\* ------------------------------------------------ properties: the pipeline
TerminalPhases == {"completed", "failed"}

\* C15: completed and failed are terminal phases: once the project is in
\* one of them no step changes its phase.
C15_TerminalPhaseStays ==
  [][project.phase \in TerminalPhases => project'.phase = project.phase]_vars

PhaseEdges ==
  {<<"idle", "analyzing">>, <<"analyzing", "selecting">>,
   <<"selecting", "generating">>, <<"generating", "exporting">>,
   <<"exporting", "completed">>}

\* C16: every change of phase is an edge of idle, analyzing, selecting,
\* generating, exporting, completed, or a move to failed from a phase that
\* is not terminal.
C16_PhaseFollowsEdges ==
  [][project'.phase # project.phase =>
       \/ <<project.phase, project'.phase>> \in PhaseEdges
       \/ /\ project'.phase = "failed"
          /\ project.phase \notin TerminalPhases]_vars

\* a request of analyze-csv, of generate-visualization
AnalyzeCsvStep ==
  \E n \in AnalysisEstimates, o \in PipelineOutcomes : AnalyzeCsv(n, o)

GenerateVisualizationStep ==
  \E n \in GenerationEstimates, o \in PipelineOutcomes,
     syntaxValid \in BOOLEAN : GenerateVisualization(n, o, syntaxValid)

PastAnalysis == {"selecting", "generating", "exporting", "completed"}

PastGeneration == {"exporting", "completed"}

\* C17: a request of analyze-csv or generate-visualization for a project
\* that is already past that phase makes no generation call and changes
\* nothing that is stored.
C17_ReinvocationIsNoOp ==
  [][(\/ AnalyzeCsvStep /\ project.phase \in PastAnalysis
      \/ GenerateVisualizationStep /\ project.phase \in PastGeneration)
       => /\ response'.steps = <<>>
          /\ UNCHANGED <<project, context, jobs, rate>>]_vars

C19_ProgressMonotone ==
  [][project'.phase # "failed" =>
       /\ project'.generation_progress \in 0..100
       /\ project'.generation_progress >= project.generation_progress]_vars

\* analyze-csv has succeeded again for a project whose generation had
\* completed, and the progress is still 100
C19_Witness ==
  /\ project.status = "completed"
  /\ project.phase = "selecting"
  /\ response.op = "analyze-csv"
  /\ response.success
  /\ project.generation_progress = 100

\* C20: every error of a request or of a queued job is appended to the
\* error_log of the project with its timestamp, step, kind and action, and
\* the entries already there stay as they are.
C20_EveryErrorLogged ==
  [][(\/ \E w \in Workers, m \in JobErrors : ProcessJobThrows(w, m)
      \/ (AnalyzeCsvStep \/ GenerateVisualizationStep)
           /\ ~ response'.success)
       => /\ Len(project'.error_log) = Len(project.error_log) + 1
          /\ SubSeq(project'.error_log, 1, Len(project.error_log))
               = project.error_log
          /\ project'.error_log[Len(project'.error_log)].timestamp = now]_vars

\* C21: a failure handled by the PERMANENT_FAILURE policy is answered as a
\* terminal failure (status 500), not as accepted (202), and the project is
\* flagged for manual review; every other failure is answered with 202.
C21_PermanentFailureSurfaces ==
  (response.op # "none" /\ ~ response.success) =>
     IF response.recovery = "MANUAL_REVIEW_REQUIRED"
       THEN response.status = 500 /\ project.needs_manual_review
       ELSE response.status = 202

\* the step a function runs
StepOf(op) == IF op = "analyze-csv" THEN "analysis" ELSE "generation"

\* C23: the result of a step is stored once the step has completed
\* successfully, and what is stored for a step is a validated payload or
\* nothing.
C23_StepResultIffCompleted ==
  /\ \A s \in StepNames : context.step_results[s] \in {"absent", "validated"}
  /\ response.success
       => context.step_results[StepOf(response.op)] = "validated"

\* C24: with the worker invoked fairly, every job eventually is completed
\* or failed (or waits for a time beyond the end of the modelled clock),
\* whatever processJob does.
C24_EveryJobTerminates ==
  <>(\A j \in JobIds :
        \/ jobs[j].status \in {"completed", "failed"}
        \/ jobs[j].scheduled_at > MaxNowQueue)

C26_FlushClears ==
  [][telemetry'.flushes > telemetry.flushes
       => telemetry'.metrics = NewMetrics]_vars

\* C27 as stated: for every list of rows the analysis gives a result, and
\* the result has exactly three metaphors.
C27_EveryInputThreeMetaphors ==
  mock.called => ~ mock.out.threw /\ Len(mock.out.metaphors) = 3

\* C27: for every list of rows that has a header row the analysis returns a
\* result with exactly three metaphors, whatever the number of columns and
\* rows; for the empty list it throws and there is no result.
C27_ThreeMetaphors ==
  mock.called =>
    IF Len(mock.csvData) = 0
      THEN mock.out.threw
      ELSE ~ mock.out.threw /\ Len(mock.out.metaphors) = 3

C27_Witness ==
  /\ mock.called
  /\ Len(mock.csvData) = 3
  /\ Len(mock.csvData[1]) = 2
  /\ ~ mock.out.threw
  /\ Len(mock.out.metaphors) = 3

C28_LimitsReadAfterReset ==
  [][(/\ rate.daily_reset_at < now
      /\ rate'.daily_reset_at > now
      /\ response'.error = "RATE_LIMIT_BUDGET")
       => \E n \in AnalysisEstimates \cup GenerationEstimates :
             rate'.daily_cost_usd + estimatedCost(n) > DailyBudget]_vars

\* C29: every call of the guard that allows the request adds one to the
\* stored requests_this_minute.
C29_AllowCountsRequest ==
  [][guard'.unrecorded > guard.unrecorded
       => rate'.requests_this_minute = rate.requests_this_minute + 1]_vars

\* C30: token_usage accumulates: a recording of a step adds the input
\* tokens, the output tokens and the cost of the step to what was stored.
C30_TokenUsageAccumulates ==
  [][\A u \in UsageReports :
        TrackTokenUsage(u)
          => /\ project'.token_usage.input = project.token_usage.input + u[2]
             /\ project'.token_usage.output
                  = project.token_usage.output + u[3]
             /\ project'.token_usage.total_cost
                  = project.token_usage.total_cost
                      + calculateCost(u[2], u[3])]_vars

\* ------------------------------------------- properties: the recoveries
\* the entries of the error log with this action
LoggedWith(action) ==
  {i \in 1..Len(project.error_log) : project.error_log[i].action = action}

\* C31: the recovery of a generation timeout is capped: a project whose
\* generation call times out every time is rescheduled with a backoff at
\* most GeminiMaxRetries times, the next timeout is escalated.
C31_TimeoutRetriesCapped ==
  Cardinality(LoggedWith("RETRY_BACKOFF")) <= GeminiMaxRetries

\* the step appends an entry to the error log
Logs == Len(project'.error_log) = Len(project.error_log) + 1

Logged == project'.error_log[Len(project'.error_log)]

\* C32: on RATE_LIMIT_BUDGET the project is paused and its job is made
\* pending for the next daily reset boundary.
C32_BudgetPausesUntilReset ==
  [][(Logs /\ Logged.error = "RATE_LIMIT_BUDGET")
       => /\ project'.status = "paused"
          /\ jobs'[ProjectJob].status = "pending"
          /\ jobs'[ProjectJob].scheduled_at = rate'.daily_reset_at]_vars

\* C33: on RATE_LIMIT_RPM the job is rescheduled to a time between the
\* start W of the next counting window of the guard, which is one window
\* after last_request_at, and W + 5 s.
C33_RpmRescheduledToNextWindow ==
  [][(Logs /\ Logged.error = "RATE_LIMIT_RPM")
       => LET W == rate.last_request_at + WindowSeconds
          IN  /\ jobs'[ProjectJob].status = "pending"
              /\ W <= jobs'[ProjectJob].scheduled_at
              /\ jobs'[ProjectJob].scheduled_at <= W + 5]_vars

RecoverAnalyzeCsvStep ==
  \E n \in GenerationEstimates, o \in RecoverOutcomes, upserted \in BOOLEAN :
     AnalyzeCsvIn(MaxErrorLog, n, o, upserted)

\* C34: the run that resumes after a storage timeout, at or after the time
\* it was rescheduled for, does not execute again a step whose result is
\* persisted: with the analysis stored, analyze-csv makes no analysis call.
C34_ResumeSkipsPersistedSteps ==
  [][(/\ RecoverAnalyzeCsvStep
      /\ Len(project.error_log) > 0
      /\ LoggedAction(project) = "RESUME_FROM_CHECKPOINT"
      /\ jobs[ProjectJob].scheduled_at <= now
      /\ context.step_results["analysis"] = "validated")
       => \A i \in 1..Len(response'.steps) :
             response'.steps[i] # "gemini_analysis"]_vars

\* C35: on UNPARSEABLE_JSON or REPAIR_FAILED of a step the fallback is
\* stored as the result of the step and the step marker gets the suffix
\* _fallback; the job is left as it is and the project does not fail.
C35_ParseFailureFallsBack ==
  [][(Logs /\ Logged.error \in {"UNPARSEABLE_JSON", "REPAIR_FAILED"})
       => /\ context'.step_results[Logged.step] = "fallback"
          /\ context'.current_step = Logged.step \o "_fallback"
          /\ jobs' = jobs
          /\ project'.status # "failed"]_vars

\* ------------------------------------------ properties: the job queue, 2
\* C36: a job is read by handleJobQueue, and its execution started, only
\* while its status is pending and its scheduled_at is not after the
\* clock: a job rescheduled with a backoff is not taken before the delay
\* has elapsed.
C36_ClaimedOnlyWhenDue ==
  [][\A w \in Workers :
        (workers[w].pc = "idle" /\ workers'[w].pc = "processing")
          => /\ jobs[workers'[w].job.id].status = "pending"
             /\ jobs[workers'[w].job.id].scheduled_at <= now]_vars

\* a job that was rescheduled with a backoff is being executed again, its
\* delay elapsed
C36_Witness ==
  \E w \in Workers :
     /\ workers[w].pc = "processing"
     /\ workers[w].job.attempts > 0
     /\ jobs[workers[w].job.id].attempts = workers[w].job.attempts
     /\ jobs[workers[w].job.id].scheduled_at > 0
     /\ jobs[workers[w].job.id].scheduled_at <= now

\* C37: a job whose invocation was abandoned does not stay as it is for
\* ever: it is executed again by a later invocation, or it is terminated.
C37_AbandonedIsRecovered ==
  \A w \in {1} :
     (workers[w].result = "abandoned")
        ~> \/ workers[w].pc = "processing"
           \/ \E j \in JobIds :
                 /\ j = workers[w].job.id
                 /\ jobs[j].status \in {"completed", "failed"}

\* the job of an abandoned invocation is being executed again
C37_Witness ==
  \E j \in JobIds :
     /\ hist[j].abandoned
     /\ workers[1].pc = "processing"
     /\ workers[1].job.id = j

\* the recoveries that retry the job
RetryActions == {"RETRY_BACKOFF", "RESUME_FROM_CHECKPOINT", "DELAYED"}

\* C38: the attempts of a job never decrease, and every recovery that
\* retries the job adds one to them.
C38_AttemptsOnlyGrow ==
  [][/\ \A j \in JobIds : jobs'[j].attempts >= jobs[j].attempts
     /\ (Logs /\ Logged.action \in RetryActions)
          => jobs'[ProjectJob].attempts = jobs[ProjectJob].attempts + 1]_vars

\* C39: a step that stores the result of one step leaves the results of
\* the other steps as they are: no stored result disappears.
C39_OtherStepResultsKept ==
  [][\A s \in StepNames :
        context.step_results[s] # "absent"
          => context'.step_results[s] # "absent"]_vars

=============================================================================
